---- MODULE Spec2Model ----
(***************************************************************************)
(* Model of the profile list view (cmd/views/profilie_list/view.go): the   *)
(* row formatter and layout engine of render/getRowsAndCols, the bubbletea *)
(* model (Init/Update) driven by the program's event loop, and the         *)
(* goroutine/channel handoff that returns the selected profile id; and of  *)
(* the workspace delete command (cmd/workspace/remove.go), DeleteSpec.      *)
(*                                                                         *)
(* Go strings are sequences of one-character strings, so that len() and    *)
(* strings.Repeat are computed; a *string is <<>> (nil) or <<s>>.          *)
(* Slices are 1-based sequences here; the table cursor stays 0-based.      *)
(***************************************************************************)
EXTENDS Integers, Sequences, FiniteSets, TLC

\* ------------------------------------------------------------ bounds ----
\* longest profile list handed to Render / GetProfileIdFromPrompt
MaxProfiles == 3

\* ------------------------------------------------------------ strings ---
Nil == <<>>
Ptr(s) == <<s>>

EmptyStr == <<>>
Dash == <<"-">>
DefaultId == <<"d", "e", "f", "a", "u", "l", "t">>
NewProfileId == <<"+">>
NewProfileName == <<"A", "d", "d", " ", "n", "e", "w", " ", "p", "r", "o", "f", "i", "l", "e">>

\* strings.Repeat("*", n)
Repeat(n) == [i \in 1..n |-> "*"]

\* fmt.Sprintf("%t", b)
FormatBool(b) == IF b THEN <<"t", "r", "u", "e">> ELSE <<"f", "a", "l", "s", "e">>

Digit(d) == CASE d = 0 -> "0" [] d = 1 -> "1" [] d = 2 -> "2" [] d = 3 -> "3"
              [] d = 4 -> "4" [] d = 5 -> "5" [] d = 6 -> "6" [] d = 7 -> "7"
              [] d = 8 -> "8" [] d = 9 -> "9"

\* fmt.Sprintf("%d", n) for n >= 0
RECURSIVE FormatInt(_)
FormatInt(n) == IF n < 10 THEN <<Digit(n)>> ELSE Append(FormatInt(n \div 10), Digit(n % 10))

\* ------------------------------------------------------------ inputs ----
\* config.Profile values the callers can pass: password only, private key
\* (with a password stored too), a password made of asterisks, neither
\* credential, and the "default" profile with stored connection fields.
ProfileA == [Id |-> <<"a">>, Name |-> <<"d", "e", "v">>, Hostname |-> <<"h", "1">>, Port |-> 22,
             User |-> <<"r", "o", "o", "t">>, Password |-> Ptr(<<"s", "3", "c">>), PrivateKeyPath |-> Nil]
ProfileB == [Id |-> <<"b">>, Name |-> <<"o", "p", "s">>, Hostname |-> <<"h", "2">>, Port |-> 2222,
             User |-> <<"b", "o", "b">>, Password |-> Ptr(<<"p", "w">>), PrivateKeyPath |-> Ptr(<<"~", "/", "k">>)]
ProfileS == [Id |-> <<"s">>, Name |-> <<"q", "a">>, Hostname |-> <<"h", "3">>, Port |-> 0,
             User |-> <<"s", "u">>, Password |-> Ptr(<<"*", "*">>), PrivateKeyPath |-> Nil]
ProfileN == [Id |-> <<"n">>, Name |-> <<"n", "o">>, Hostname |-> <<"h", "4">>, Port |-> 80,
             User |-> <<"n", "n">>, Password |-> Nil, PrivateKeyPath |-> Nil]
ProfileD == [Id |-> DefaultId, Name |-> <<"D">>, Hostname |-> <<"h", "5">>, Port |-> 22,
             User |-> <<"d", "d">>, Password |-> Ptr(<<"x", "y">>), PrivateKeyPath |-> Nil]

\* the stored profiles, in configuration order
Catalogue == <<ProfileA, ProfileB, ProfileD, ProfileS, ProfileN>>

\* the sequence of the catalogue entries at the indices in S, in order
RECURSIVE Pick(_, _)
Pick(S, from) ==
    IF from > Len(Catalogue) THEN <<>>
    ELSE IF from \in S THEN <<Catalogue[from]>> \o Pick(S, from + 1)
    ELSE Pick(S, from + 1)

\* profile lists: the catalogue restricted to at most MaxProfiles entries
ProfileLists ==
    {Pick(S, 1) : S \in {T \in SUBSET (1..Len(Catalogue)) : Cardinality(T) <= MaxProfiles}}

\* the active profile id of the configuration; a list may lack that profile
ActiveIds == {<<"b">>, DefaultId}

\* terminal widths, fitting 0, 1, 2, 4, 7 and 8 columns
Widths == {9, 25, 30, 55, 90, 110}

\* key presses: the keys of Update, the table's key map, one unbound key
Keys == {"esc", "q", "ctrl+c", "enter", "up", "down", "pgup", "pgdown", "home", "end", "x"}

\* ------------------------------------------------------------ schema ----
columns == <<
    [Title |-> "Id", Width |-> 10],
    [Title |-> "Name", Width |-> 20],
    [Title |-> "Active", Width |-> 10],
    [Title |-> "Hostname", Width |-> 15],
    [Title |-> "SSH port", Width |-> 10],
    [Title |-> "SSH user", Width |-> 10],
    [Title |-> "SSH password", Width |-> 15],
    [Title |-> "SSH private key path", Width |-> 20] >>

\* ------------------------------------------------------ row formatter ---
\* variant: the password is shown as stored instead of masked
Row_unmasked(profile, activeProfileId) ==
    LET base == <<profile.Id, profile.Name, FormatBool(profile.Id = activeProfileId),
                  profile.Hostname, FormatInt(profile.Port), profile.User>>
        row == IF profile.PrivateKeyPath # Nil
                   THEN base \o <<Dash, profile.PrivateKeyPath[1]>>
               ELSE IF profile.Password # Nil
                   THEN base \o <<profile.Password[1], Dash>>
               ELSE base
    IN  CASE profile.Id = DefaultId ->
                <<profile.Id, profile.Name, FormatBool(profile.Id = activeProfileId),
                  Dash, Dash, Dash, Dash, Dash>>
          [] profile.Id = NewProfileId ->
                <<profile.Id, profile.Name, EmptyStr, EmptyStr, EmptyStr, EmptyStr, EmptyStr, EmptyStr>>
          [] OTHER -> row

\* variant: the "default" case of the switch is missing
Row_nodefault(profile, activeProfileId) ==
    LET base == <<profile.Id, profile.Name, FormatBool(profile.Id = activeProfileId),
                  profile.Hostname, FormatInt(profile.Port), profile.User>>
        row == IF profile.PrivateKeyPath # Nil
                   THEN base \o <<Dash, profile.PrivateKeyPath[1]>>
               ELSE IF profile.Password # Nil
                   THEN base \o <<Repeat(Len(profile.Password[1])), Dash>>
               ELSE base
    IN  CASE profile.Id = NewProfileId ->
                <<profile.Id, profile.Name, EmptyStr, EmptyStr, EmptyStr, EmptyStr, EmptyStr, EmptyStr>>
          [] OTHER -> row

\* render, loop body: the display row of one profile
Row(profile, activeProfileId) ==
    LET base == <<profile.Id, profile.Name, FormatBool(profile.Id = activeProfileId),
                  profile.Hostname, FormatInt(profile.Port), profile.User>>
        row == IF profile.PrivateKeyPath # Nil
                   THEN base \o <<Dash, profile.PrivateKeyPath[1]>>
               ELSE IF profile.Password # Nil
                   THEN base \o <<Repeat(Len(profile.Password[1])), Dash>>
               ELSE base
    IN  CASE profile.Id = DefaultId ->
                <<profile.Id, profile.Name, FormatBool(profile.Id = activeProfileId),
                  Dash, Dash, Dash, Dash, Dash>>
          [] profile.Id = NewProfileId ->
                <<profile.Id, profile.Name, EmptyStr, EmptyStr, EmptyStr, EmptyStr, EmptyStr, EmptyStr>>
          [] OTHER -> row

\* render: rows, one per profile, in list order
Rows(profileList, activeProfileId) ==
    [i \in 1..Len(profileList) |-> Row(profileList[i], activeProfileId)]

\* render: activeProfileRow, the (0-based) index of the last profile whose
\* id is the active one, 0 when there is none
ActiveProfileRow(profileList, activeProfileId) ==
    LET hits == {i \in 1..Len(profileList) : profileList[i].Id = activeProfileId}
    IN  IF hits = {} THEN 0 ELSE (CHOOSE i \in hits : \A j \in hits : j <= i) - 1

\* GetProfileIdFromPrompt: withNewProfile
WithNewProfile(profileList, withCreateOption) ==
    IF withCreateOption
        THEN Append(profileList, [Id |-> NewProfileId, Name |-> NewProfileName, Hostname |-> EmptyStr,
                                  Port |-> 0, User |-> EmptyStr, Password |-> Nil, PrivateKeyPath |-> Nil])
        ELSE profileList

\* ------------------------------------------------------ layout engine ---
\* variant: a column that does not fit is skipped (continue) instead of
\* ending the walk (break)
RECURSIVE FitCols_continue(_, _, _, _)
FitCols_continue(i, colWidth, cols, width) ==
    IF i > Len(columns) THEN cols
    ELSE IF colWidth + columns[i].Width > width THEN FitCols_continue(i + 1, colWidth, cols, width)
    ELSE FitCols_continue(i + 1, colWidth + columns[i].Width, Append(cols, columns[i]), width)

\* getRowsAndCols, first loop: walk the schema from column i with colWidth
\* accumulated so far, break at the first column that does not fit
RECURSIVE FitCols(_, _, _, _)
FitCols(i, colWidth, cols, width) ==
    IF i > Len(columns) THEN cols
    ELSE IF colWidth + columns[i].Width > width THEN cols
    ELSE FitCols(i + 1, colWidth + columns[i].Width, Append(cols, columns[i]), width)

\* getRowsAndCols, second loop: row[:len(cols)] of every row. A slice
\* expression past the capacity of the row panics; the 6-cell row literal of
\* render has capacity 6, all other rows have 8 cells.
SliceRows(initialRows, n) ==
    IF \E i \in 1..Len(initialRows) : n > Len(initialRows[i])
        THEN [panic |-> TRUE, rows |-> <<>>]
        ELSE [panic |-> FALSE, rows |-> [i \in 1..Len(initialRows) |-> SubSeq(initialRows[i], 1, n)]]

getRowsAndCols(width, initialRows) ==
    LET cols == FitCols(1, 0, <<>>, width)
        sliced == SliceRows(initialRows, Len(cols))
    IN  [panic |-> sliced.panic, rows |-> sliced.rows, cols |-> cols]

\* ------------------------------------------------------------- table ----
Min(a, b) == IF a < b THEN a ELSE b
Max(a, b) == IF a > b THEN a ELSE b

\* bubbles table: clamp
clamp(v, low, high) == Min(Max(v, low), high)

\* bubbles table: SetCursor
SetCursor(t, n) == [t EXCEPT !.cursor = clamp(n, 0, Len(t.rows) - 1)]

\* variant: the new table keeps the cursor of table.New (row 0)
getTable_top(rows, cols, selectable, activeRow) ==
    [cols |-> cols, rows |-> rows, focus |-> selectable, cursor |-> clamp(0, 0, Len(rows) - 1)]

\* getTable: a new table with the given rows and columns, focused iff
\* selectable, cursor set to activeRow
getTable(rows, cols, selectable, activeRow) ==
    SetCursor([cols |-> cols, rows |-> rows, focus |-> selectable, cursor |-> 0], activeRow)

\* variant: MoveDown without the clamp
MoveDown_unclamped(t, n) == [t EXCEPT !.cursor = t.cursor + n]

\* bubbles table: MoveUp / MoveDown
MoveUp(t, n) == [t EXCEPT !.cursor = clamp(t.cursor - n, 0, Len(t.rows) - 1)]
MoveDown(t, n) == [t EXCEPT !.cursor = clamp(t.cursor + n, 0, Len(t.rows) - 1)]

\* variant: the focus check is missing
tableUpdate_unfocused(t, key) ==
    CASE key = "up" -> MoveUp(t, 1)
      [] key = "down" -> MoveDown(t, 1)
      [] key = "pgup" -> MoveUp(t, Len(t.rows))
      [] key = "pgdown" -> MoveDown(t, Len(t.rows))
      [] key = "home" -> MoveUp(t, t.cursor)
      [] key = "end" -> MoveDown(t, Len(t.rows))
      [] OTHER -> t

\* bubbles table: Update on a key message; keys are ignored without focus
tableUpdate(t, key) ==
    IF ~t.focus THEN t
    ELSE CASE key = "up" -> MoveUp(t, 1)
           [] key = "down" -> MoveDown(t, 1)
           [] key = "pgup" -> MoveUp(t, Len(t.rows))
           [] key = "pgdown" -> MoveDown(t, Len(t.rows))
           [] key = "home" -> MoveUp(t, t.cursor)
           [] key = "end" -> MoveDown(t, Len(t.rows))
           [] OTHER -> t

\* bubbles table: SelectedRow, nil (here <<>>) when the cursor is off the rows
SelectedRow(t) ==
    IF t.cursor < 0 \/ t.cursor >= Len(t.rows) THEN <<>> ELSE t.rows[t.cursor + 1]

\* ------------------------------------------------------------- model ----
\* variant: the condition of Init is inverted
ModelInit_inverted(mdl) == IF mdl.selectable THEN "tea.Quit" ELSE "nil"

\* model.Init: the command returned at program start (tea.Quit or nil)
ModelInit(mdl) == IF ~mdl.selectable THEN "tea.Quit" ELSE "nil"

\* variant: the projected rows are stored back as the row set
UpdateWindowSize_stored(mdl, width) ==
    LET rc == getRowsAndCols(width, mdl.initialRows)
    IN  IF rc.panic
            THEN [panic |-> "slice bounds out of range", m |-> mdl, cmd |-> "nil"]
            ELSE [panic |-> "none",
                  m |-> [mdl EXCEPT !.table = getTable(rc.rows, rc.cols, mdl.selectable, mdl.table.cursor),
                                    !.initialRows = rc.rows],
                  cmd |-> "nil"]

\* model.Update, case tea.WindowSizeMsg
UpdateWindowSize(mdl, width) ==
    LET rc == getRowsAndCols(width, mdl.initialRows)
    IN  IF rc.panic
            THEN [panic |-> "slice bounds out of range", m |-> mdl, cmd |-> "nil"]
            ELSE [panic |-> "none",
                  m |-> [mdl EXCEPT !.table = getTable(rc.rows, rc.cols, mdl.selectable, mdl.table.cursor)],
                  cmd |-> "nil"]

\* variant: the quit keys leave selectedProfileId as it is
UpdateKey_keep(mdl, key) ==
    CASE key = "esc" ->
            [panic |-> "none",
             m |-> [mdl EXCEPT !.table = tableUpdate([mdl.table EXCEPT !.focus = ~mdl.table.focus], key)],
             cmd |-> "nil"]
      [] key \in {"q", "ctrl+c"} ->
            [panic |-> "none", m |-> mdl, cmd |-> "tea.Quit"]
      [] key = "enter" ->
            IF Len(SelectedRow(mdl.table)) = 0
                THEN [panic |-> "index out of range", m |-> mdl, cmd |-> "nil"]
                ELSE [panic |-> "none",
                      m |-> [mdl EXCEPT !.selectedProfileId = SelectedRow(mdl.table)[1]],
                      cmd |-> "tea.Quit"]
      [] OTHER ->
            [panic |-> "none", m |-> [mdl EXCEPT !.table = tableUpdate(mdl.table, key)], cmd |-> "nil"]

\* model.Update, case tea.KeyMsg
UpdateKey(mdl, key) ==
    CASE key = "esc" ->
            [panic |-> "none",
             m |-> [mdl EXCEPT !.table = tableUpdate([mdl.table EXCEPT !.focus = ~mdl.table.focus], key)],
             cmd |-> "nil"]
      [] key \in {"q", "ctrl+c"} ->
            [panic |-> "none", m |-> [mdl EXCEPT !.selectedProfileId = EmptyStr], cmd |-> "tea.Quit"]
      [] key = "enter" ->
            IF Len(SelectedRow(mdl.table)) = 0
                THEN [panic |-> "index out of range", m |-> mdl, cmd |-> "nil"]
                ELSE [panic |-> "none",
                      m |-> [mdl EXCEPT !.selectedProfileId = SelectedRow(mdl.table)[1]],
                      cmd |-> "tea.Quit"]
      [] OTHER ->
            [panic |-> "none", m |-> [mdl EXCEPT !.table = tableUpdate(mdl.table, key)], cmd |-> "nil"]

\* ------------------------------------------------------------- state ----
VARIABLES
    profileList,        \* render's argument: the profiles to show
    activeProfileId,    \* render's argument
    selectable,         \* render's argument
    termWidth,          \* the terminal's current width
    callerPc,           \* render's caller side: "call", "recv", "return"
    goPc,               \* the goroutine: "none", "run", "loop", "send", "done"
    m,                  \* the model held by the program
    quitPending,        \* a tea.Quit command was issued, its QuitMsg not yet read
    profileId,          \* the value render returns
    failure,            \* "none", or the panic / fatal error that ended the process
    firstTerminalKey,   \* history: "quit" or "confirm", the first such key Update handled
    lastTerminalKey,    \* history: "quit" or "confirm", the latest such key Update handled
    lastMsg,            \* history: the type of the message Update handled last
    del                 \* the run of the workspace delete command (cmd/workspace/remove.go)

vars == <<profileList, activeProfileId, selectable, termWidth, callerPc, goPc, m,
          quitPending, profileId, failure, firstTerminalKey, lastTerminalKey, lastMsg, del>>

viewVars == <<profileList, activeProfileId, selectable, termWidth, callerPc, goPc, m,
              quitPending, profileId, failure, firstTerminalKey, lastTerminalKey, lastMsg>>

args == <<profileList, activeProfileId, selectable>>
terminalKeys == <<firstTerminalKey, lastTerminalKey>>
history == <<firstTerminalKey, lastTerminalKey, lastMsg>>

\* the keys of Update that return tea.Quit
KeyKind(key) == CASE key \in {"q", "ctrl+c"} -> "quit" [] key = "enter" -> "confirm" [] OTHER -> "other"

\* --------------------------------------------- workspace delete command --
\* workspace names on the command line, in DAYTONA_WS_NAME and on the server
WorkspaceNames == {"w1", "w2"}

\* the delete command before it runs: pc is the next step of Run
DeleteStart(cmdArgs, envName, forceFlag, activeId, listed) ==
    [pc |-> "GetConfig", args |-> cmdArgs, env |-> envName, force |-> forceFlag,
     activeProfile |-> activeId, workspaces |-> listed,
     workspaceName |-> "", listErr |-> FALSE, request |-> <<>>, removeErr |-> FALSE,
     sshRemoved |-> <<>>]

\* the command is not run
DeleteIdle == DeleteStart(<<>>, <<>>, FALSE, "default", {})

\* Render passes the list as is with selectable = false;
\* GetProfileIdFromPrompt may append the "+" profile, selectable = true
Init ==
    /\ \E l \in ProfileLists, withCreateOption \in BOOLEAN, sel \in BOOLEAN :
          /\ selectable = sel
          /\ profileList = IF sel THEN WithNewProfile(l, withCreateOption) ELSE l
          /\ sel \/ ~withCreateOption
    /\ activeProfileId \in ActiveIds
    /\ termWidth \in Widths
    /\ callerPc = "call"
    /\ goPc = "none"
    /\ m = [table |-> [cols |-> <<>>, rows |-> <<>>, focus |-> FALSE, cursor |-> 0],
            selectedProfileId |-> EmptyStr, selectable |-> FALSE, initialRows |-> <<>>]
    /\ quitPending = FALSE
    /\ profileId = EmptyStr
    /\ failure = "none"
    /\ firstTerminalKey = "none"
    /\ lastTerminalKey = "none"
    /\ lastMsg = "none"
    /\ del = DeleteIdle

\* render up to the start of the goroutine: build the rows, fit them to the
\* terminal width, build the model
render ==
    /\ callerPc = "call" /\ failure = "none"
    /\ LET rows == Rows(profileList, activeProfileId)
           rc == getRowsAndCols(termWidth, rows)
       IN  IF rc.panic
               THEN /\ failure' = "slice bounds out of range"
                    /\ UNCHANGED <<callerPc, goPc, m>>
               ELSE /\ m' = [table |-> getTable(rc.rows, rc.cols, selectable,
                                                ActiveProfileRow(profileList, activeProfileId)),
                             selectedProfileId |-> activeProfileId,
                             selectable |-> selectable,
                             initialRows |-> rows]
                    /\ callerPc' = "recv"
                    /\ goPc' = "run"
                    /\ failure' = "none"
    /\ UNCHANGED <<del, args, termWidth, quitPending, profileId, history>>

\* tea.NewProgram(modelInstance).Run() starts: it calls Init and queues its command
Run ==
    /\ goPc = "run" /\ failure = "none"
    /\ goPc' = "loop"
    /\ quitPending' = (ModelInit(m) = "tea.Quit")
    /\ UNCHANGED <<del, args, termWidth, callerPc, m, profileId, failure, history>>

\* Run() returns an error (the program cannot attach to the terminal): os.Exit(1)
RunError ==
    /\ goPc = "run" /\ failure = "none"
    /\ failure' = "Error running program"
    /\ UNCHANGED <<del, args, termWidth, callerPc, goPc, m, quitPending, profileId, history>>

\* the event loop reads a tea.WindowSizeMsg
WindowSizeMsg(width) ==
    /\ goPc = "loop" /\ failure = "none"
    /\ termWidth' = width
    /\ LET r == UpdateWindowSize(m, width)
       IN  /\ failure' = r.panic
           /\ m' = r.m
    /\ lastMsg' = "WindowSizeMsg"
    /\ UNCHANGED <<del, args, callerPc, goPc, quitPending, profileId, terminalKeys>>

\* the event loop reads a tea.KeyMsg
KeyMsg(key) ==
    /\ goPc = "loop" /\ failure = "none"
    /\ LET r == UpdateKey(m, key)
       IN  /\ failure' = r.panic
           /\ m' = r.m
           /\ quitPending' = (quitPending \/ r.cmd = "tea.Quit")
           /\ IF KeyKind(key) # "other" /\ r.panic = "none"
                  THEN /\ firstTerminalKey' = IF firstTerminalKey = "none" THEN KeyKind(key) ELSE firstTerminalKey
                       /\ lastTerminalKey' = KeyKind(key)
                  ELSE UNCHANGED terminalKeys
    /\ lastMsg' = "KeyMsg"
    /\ UNCHANGED <<del, args, termWidth, callerPc, goPc, profileId>>

\* the event loop reads the QuitMsg of a tea.Quit command: Run() returns the model
QuitMsg ==
    /\ goPc = "loop" /\ failure = "none"
    /\ quitPending
    /\ goPc' = "send"
    /\ quitPending' = FALSE
    /\ lastMsg' = "QuitMsg"
    /\ UNCHANGED <<del, args, termWidth, callerPc, m, profileId, failure, terminalKeys>>

\* variant: the goroutine sends the id render started with, not the final model's
Handoff_stale ==
    /\ goPc = "send" /\ callerPc = "recv" /\ failure = "none"
    /\ profileId' = activeProfileId
    /\ goPc' = "done"
    /\ callerPc' = "return"
    /\ UNCHANGED <<del, args, termWidth, m, quitPending, failure, history>>

\* selectedProfileId <- m.selectedProfileId meets profileId := <-selectedProfileId;
\* the goroutine ends, render clears its lines and returns profileId
Handoff ==
    /\ goPc = "send" /\ callerPc = "recv" /\ failure = "none"
    /\ profileId' = m.selectedProfileId
    /\ goPc' = "done"
    /\ callerPc' = "return"
    /\ UNCHANGED <<del, args, termWidth, m, quitPending, failure, history>>

Next ==
    \/ render
    \/ Run
    \/ RunError
    \/ \E width \in Widths : WindowSizeMsg(width)
    \/ \E key \in Keys : KeyMsg(key)
    \/ QuitMsg
    \/ Handoff

Spec == Init /\ [][Next]_vars

\* config.GetConfig, c.GetActiveProfile, client.GetConn: each returns or log.Fatal ends the command
Setup(step, next) ==
    /\ del.pc = step
    /\ \E err \in BOOLEAN : del' = [del EXCEPT !.pc = IF err THEN "fatal" ELSE next]
    /\ UNCHANGED viewVars

GetConfig == Setup("GetConfig", "GetActiveProfile")
GetActiveProfile == Setup("GetActiveProfile", "GetConn")
GetConn == Setup("GetConn", "name")

\* no argument: client.List, then the name chosen in the prompt ("" when none is chosen)
ListAndPrompt ==
    /\ del.pc = "name" /\ Len(del.args) = 0
    /\ \/ del' = [del EXCEPT !.pc = "fatal", !.listErr = TRUE]
       \/ \E name \in del.workspaces \cup {""} :
             del' = [del EXCEPT !.pc = "LookupEnv", !.workspaceName = name]
    /\ UNCHANGED viewVars

\* an argument: workspaceName = args[0]
NameFromArgs ==
    /\ del.pc = "name" /\ Len(del.args) # 0
    /\ del' = [del EXCEPT !.pc = "LookupEnv", !.workspaceName = del.args[1]]
    /\ UNCHANGED viewVars

\* os.LookupEnv("DAYTONA_WS_NAME") overrides the name when the variable is set
LookupEnv ==
    /\ del.pc = "LookupEnv"
    /\ del' = [del EXCEPT !.pc = "Remove",
                          !.workspaceName = IF del.env # Nil THEN del.env[1] ELSE del.workspaceName]
    /\ UNCHANGED viewVars

\* variant: the error of client.Remove is not checked
Remove_unchecked ==
    /\ del.pc = "Remove"
    /\ \E err \in BOOLEAN :
          del' = [del EXCEPT !.pc = "RemoveWorkspaceSshEntries",
                             !.request = <<[Name |-> del.workspaceName, Force |-> del.force]>>,
                             !.removeErr = err]
    /\ UNCHANGED viewVars

\* client.Remove(ctx, removeWorkspaceRequest): log.Fatal on an error
Remove ==
    /\ del.pc = "Remove"
    /\ \E err \in BOOLEAN :
          del' = [del EXCEPT !.pc = IF err THEN "fatal" ELSE "RemoveWorkspaceSshEntries",
                             !.request = <<[Name |-> del.workspaceName, Force |-> del.force]>>,
                             !.removeErr = err]
    /\ UNCHANGED viewVars

\* config.RemoveWorkspaceSshEntries(activeProfile.Id, workspaceName), then Run returns
RemoveWorkspaceSshEntries ==
    /\ del.pc = "RemoveWorkspaceSshEntries"
    /\ del' = [del EXCEPT !.pc = "done",
                          !.sshRemoved = Append(del.sshRemoved, <<del.activeProfile, del.workspaceName>>)]
    /\ UNCHANGED viewVars

\* DeleteCmd.Run with every command line, environment and server state
DeleteInit ==
    /\ \E cmdArgs \in {<<>>} \cup {<<w>> : w \in WorkspaceNames},
          envName \in {Nil} \cup {Ptr(w) : w \in WorkspaceNames},
          forceFlag \in BOOLEAN,
          activeId \in {"default", "b"},
          listed \in SUBSET WorkspaceNames :
          del = DeleteStart(cmdArgs, envName, forceFlag, activeId, listed)
    /\ profileList = <<>>
    /\ activeProfileId = DefaultId
    /\ selectable = FALSE
    /\ termWidth = 110
    /\ callerPc = "idle"
    /\ goPc = "none"
    /\ m = [table |-> [cols |-> <<>>, rows |-> <<>>, focus |-> FALSE, cursor |-> 0],
            selectedProfileId |-> EmptyStr, selectable |-> FALSE, initialRows |-> <<>>]
    /\ quitPending = FALSE
    /\ profileId = EmptyStr
    /\ failure = "none"
    /\ firstTerminalKey = "none"
    /\ lastTerminalKey = "none"
    /\ lastMsg = "none"

DeleteNext ==
    \/ GetConfig
    \/ GetActiveProfile
    \/ GetConn
    \/ ListAndPrompt
    \/ NameFromArgs
    \/ LookupEnv
    \/ Remove
    \/ RemoveWorkspaceSshEntries

DeleteSpec == DeleteInit /\ [][DeleteNext]_vars

\* the Go scheduler runs every runnable goroutine and the event loop reads
\* every queued message: render, the program start, a queued QuitMsg and a
\* ready channel rendezvous are not postponed forever
FairSpec ==
    /\ Spec
    /\ WF_vars(render)
    /\ WF_vars(Run)
    /\ WF_vars(QuitMsg)
    /\ WF_vars(Handoff)

\* ============================================================ claims ====
\* the program built its model and has not failed
Built == goPc # "none" /\ failure = "none"

RECURSIVE SumWidths(_)
SumWidths(cols) == IF cols = <<>> THEN 0 ELSE cols[1].Width + SumWidths(Tail(cols))

\* C1: the visible columns are a prefix of the 8-column schema whose
\* cumulative width is at most the available width, and the longest such
\* prefix: all columns are visible or the next schema column would exceed
\* the width; at width 25 exactly {Id} is visible.
C1_LongestPrefix ==
    Built =>
        LET cols == m.table.cols
            k == Len(cols)
        IN  /\ k <= Len(columns)
            /\ cols = SubSeq(columns, 1, k)
            /\ SumWidths(cols) <= termWidth
            /\ k = Len(columns) \/ SumWidths(cols) + columns[k + 1].Width > termWidth
            /\ termWidth = 25 => cols = <<columns[1]>>

\* a resize to width 25 left exactly one column, two narrower columns cut off
C1_Witness ==
    /\ Built /\ lastMsg = "WindowSizeMsg"
    /\ termWidth = 25
    /\ Len(m.table.cols) = 1
    /\ Len(m.initialRows) > 0

\* C2 (as claimed): for every width and every row of the row set the
\* projection exists, has as many cells as there are visible columns and
\* equals the row's first cells; every visible row is as long as the
\* visible column list.
C2_Original ==
    /\ failure # "slice bounds out of range"
    /\ Built =>
          /\ Len(m.table.rows) = Len(m.initialRows)
          /\ \A i \in 1..Len(m.table.rows) :
                /\ Len(m.table.rows[i]) = Len(m.table.cols)
                /\ \A c \in 1..Len(m.table.cols) : m.table.rows[i][c] = m.initialRows[i][c]

\* C3 (as claimed): every row built by render has as many cells as the
\* column schema, whatever credentials the profile carries.
C3_Original ==
    Built => \A i \in 1..Len(m.initialRows) : Len(m.initialRows[i]) = Len(columns)

\* a profile with a regular id
NonSentinel(profile) == profile.Id # DefaultId /\ profile.Id # NewProfileId

\* the two credential cells of a non-sentinel profile's row
Redacted(profile, row) ==
    /\ profile.PrivateKeyPath # Nil =>
          /\ Len(row) = 8
          /\ row[7] = Dash
          /\ row[8] = profile.PrivateKeyPath[1]
    /\ (profile.PrivateKeyPath = Nil /\ profile.Password # Nil) =>
          /\ Len(row) = 8
          /\ Len(row[7]) = Len(profile.Password[1])
          /\ \A j \in 1..Len(row[7]) : row[7][j] = "*"
          /\ row[8] = Dash

\* C4 (as claimed): redaction of the credential cells, and the password's
\* content is the value of no cell of the row.
C4_Original ==
    Built =>
        \A i \in 1..Len(profileList) :
            NonSentinel(profileList[i]) =>
                /\ Redacted(profileList[i], m.initialRows[i])
                /\ profileList[i].Password # Nil =>
                      \A c \in 1..Len(m.initialRows[i]) : m.initialRows[i][c] # profileList[i].Password[1]

\* the other values a profile displays: a password equal to one of them, to
\* its own mask or to the "-" placeholder is shown by coincidence
Displayed(profile, active) ==
    {profile.Id, profile.Name, FormatBool(profile.Id = active), profile.Hostname,
     FormatInt(profile.Port), profile.User, Dash}
        \cup (IF profile.PrivateKeyPath # Nil THEN {profile.PrivateKeyPath[1]} ELSE {})
        \cup (IF profile.Password # Nil THEN {Repeat(Len(profile.Password[1]))} ELSE {})

\* C4 (amended): redaction of the credential cells as claimed; the
\* password's content is the value of a cell only when it coincides with
\* its own mask, with "-" or with another displayed field of the profile.
C4_Redaction ==
    Built =>
        \A i \in 1..Len(profileList) :
            NonSentinel(profileList[i]) =>
                /\ Redacted(profileList[i], m.initialRows[i])
                /\ profileList[i].Password # Nil =>
                      \A c \in 1..Len(m.initialRows[i]) :
                          m.initialRows[i][c] = profileList[i].Password[1]
                              => profileList[i].Password[1] \in Displayed(profileList[i], activeProfileId)

\* rows were built for a password-only profile, for one with a key path and
\* a password, and the masks differ from the passwords
C4_Witness ==
    /\ Built
    /\ \E i, j \in 1..Len(profileList) :
          /\ profileList[i] = ProfileA /\ m.initialRows[i][7] = <<"*", "*", "*">>
          /\ profileList[j] = ProfileB /\ m.initialRows[j][8] = <<"~", "/", "k">>

\* C5: the row of the "default" profile keeps Id, Name and the Active flag
\* and shows "-" in the five columns Hostname .. SSH private key path,
\* whatever the profile stores.
C5_DefaultRow ==
    Built =>
        \A i \in 1..Len(profileList) :
            profileList[i].Id = DefaultId =>
                m.initialRows[i] = <<profileList[i].Id, profileList[i].Name,
                                     FormatBool(DefaultId = activeProfileId),
                                     Dash, Dash, Dash, Dash, Dash>>

\* the default profile, active, stores a hostname and a password and its
\* row was built
C5_Witness ==
    /\ Built
    /\ activeProfileId = DefaultId
    /\ \E i \in 1..Len(profileList) :
          /\ profileList[i].Id = DefaultId
          /\ profileList[i].Password # Nil /\ profileList[i].Hostname # Dash
          /\ m.initialRows[i][3] = <<"t", "r", "u", "e">>
          /\ m.initialRows[i][7] = Dash

QuitKeys == {"q", "ctrl+c"}

\* C6 (as claimed): in selectable mode handling a quit key empties the
\* selection result and ends the program, and once a quit key has been
\* handled the value render returns is the empty string.
C6_Original ==
    [][/\ (selectable /\ \E key \in QuitKeys : KeyMsg(key))
            => (m'.selectedProfileId = EmptyStr /\ quitPending')
       /\ (selectable /\ firstTerminalKey = "quit" /\ callerPc' = "return")
            => profileId' = EmptyStr]_vars

\* C7 (as claimed): in selectable mode handling "enter" with the cursor at
\* row i stores the id of profile i as the selection result and ends the
\* program, and once a confirm has been handled render returns an id of the
\* list.
C7_Original ==
    [][/\ (selectable /\ m.table.cursor \in 0..(Len(profileList) - 1) /\ KeyMsg("enter"))
            => /\ failure' = "none"
               /\ m'.selectedProfileId = profileList[m.table.cursor + 1].Id
               /\ quitPending'
       /\ (selectable /\ firstTerminalKey = "confirm" /\ callerPc' = "return")
            => \E i \in 1..Len(profileList) : profileId' = profileList[i].Id]_vars

\* C8 (as claimed): with zero visible columns no event leads to an
\* out-of-range access on a row.
C8_Original ==
    ~(goPc # "none" /\ Len(m.table.cols) = 0 /\ Len(m.table.rows) > 0 /\ failure = "index out of range")

\* C9: handling a WindowSizeMsg leaves the cursor where it was.
C9_ResizeKeepsCursor ==
    [][(\E width \in Widths : WindowSizeMsg(width)) => m'.table.cursor = m.table.cursor]_vars

\* the table was just rebuilt for two columns with the cursor on the third
\* row, away from the active profile's row
C9_Witness ==
    /\ Built /\ lastMsg = "WindowSizeMsg"
    /\ Len(m.table.cols) = 2
    /\ Len(m.table.rows) = 3
    /\ m.table.cursor = 2
    /\ ActiveProfileRow(profileList, activeProfileId) # 2

\* C10 (as claimed): handling a WindowSizeMsg leaves the focus as it was.
C10_Original ==
    [][((\E width \in Widths : WindowSizeMsg(width)) /\ failure' = "none")
            => m'.table.focus = m.table.focus]_vars

\* C11 (as claimed): in non-selectable mode the table is never focused and
\* the value render hands back is the active id it was given.
C11_Original ==
    ~selectable =>
        /\ ~m.table.focus
        /\ callerPc = "return" => profileId = activeProfileId

\* C12: the goroutine sends once, after the event loop has ended on a
\* QuitMsg; the caller receives once, the final model's selectedProfileId;
\* after the handoff the goroutine is done and nothing changes any more; a
\* goroutine ready to send is always met by the caller.
C12_ExactlyOnce ==
    /\ [][/\ goPc' = "send" => lastMsg' = "QuitMsg"
          /\ (callerPc' = "return" /\ callerPc # "return")
                => (goPc = "send" /\ goPc' = "done" /\ profileId' = m.selectedProfileId)
          /\ (goPc' = "done" /\ goPc # "done") => (callerPc = "recv" /\ callerPc' = "return")
          /\ callerPc = "return" => UNCHANGED vars]_vars
    /\ [](callerPc = "return" <=> goPc = "done")
    /\ (goPc = "send") ~> (callerPc = "return" /\ goPc = "done")

\* render returned an id chosen by a confirm key that differs from the
\* active id it started with
C12_Witness ==
    /\ callerPc = "return" /\ goPc = "done"
    /\ lastTerminalKey = "confirm"
    /\ profileId # activeProfileId
    /\ profileId = m.selectedProfileId

\* C13: in selectable mode render returns only after Update handled a quit
\* or confirm key; resize, toggle-focus and movement events alone never end
\* the program.
C13_ReturnsOnlyOnTerminalKey ==
    /\ (selectable /\ goPc \in {"send", "done"}) => firstTerminalKey # "none"
    /\ (selectable /\ firstTerminalKey = "none") => (~quitPending /\ callerPc # "return")

\* selectable mode: a resize was handled after a focus toggle and a cursor
\* move, and the call is still blocked
C13_Witness ==
    /\ selectable /\ Built
    /\ lastMsg = "WindowSizeMsg"
    /\ m.table.cursor # ActiveProfileRow(profileList, activeProfileId)
    /\ firstTerminalKey = "none"
    /\ callerPc = "recv" /\ goPc = "loop"

\* C14: the value GetProfileIdFromPrompt returns is the empty string or the
\* id of a profile of the displayed list (the "+" profile included); it is
\* non-empty only after a confirm and empty only after a quit.
C14_ResultIsListedId ==
    (selectable /\ callerPc = "return") =>
        /\ profileId = EmptyStr \/ \E i \in 1..Len(profileList) : profileId = profileList[i].Id
        /\ profileId # EmptyStr => lastTerminalKey = "confirm"
        /\ profileId = EmptyStr => lastTerminalKey = "quit"

\* the prompt returned the id of the appended "+" profile
C14_Witness ==
    /\ selectable /\ callerPc = "return"
    /\ Len(profileList) > 1
    /\ profileList[Len(profileList)].Id = NewProfileId
    /\ profileId = NewProfileId

\* C15: the stored row set stays the rows render built, and the visible
\* rows and columns are its projection at the current width, whatever
\* resizes came before.
C15_ProjectionOfOriginal ==
    Built =>
        /\ m.initialRows = Rows(profileList, activeProfileId)
        /\ LET k == Len(FitCols(1, 0, <<>>, termWidth))
           IN  /\ Len(m.table.cols) = k
               /\ Len(m.table.rows) = Len(m.initialRows)
               /\ \A i \in 1..Len(m.initialRows) :
                     /\ k <= Len(m.initialRows[i])
                     /\ m.table.rows[i] = SubSeq(m.initialRows[i], 1, k)

\* a resize to the full width shows all eight cells of a password row
C15_Witness ==
    /\ Built /\ lastMsg = "WindowSizeMsg"
    /\ termWidth = 110
    /\ \E i \in 1..Len(profileList) :
          /\ profileList[i] = ProfileA
          /\ Len(m.table.rows[i]) = 8
          /\ m.table.rows[i][7] = <<"*", "*", "*">>
          /\ m.table.rows[i][8] = Dash

\* a step of the event loop that handles a key message
KeyStep == goPc = "loop" /\ failure = "none" /\ lastMsg' = "KeyMsg"

C17_CursorInRange ==
    (Built /\ Len(m.initialRows) > 0) =>
        (m.table.cursor >= 0 /\ m.table.cursor < Len(m.table.rows))

\* a key left the cursor on the last of three rows, the first row being
\* where it started
C17_Witness ==
    /\ Built /\ lastMsg = "KeyMsg"
    /\ Len(m.table.rows) = 3
    /\ m.table.cursor = 2
    /\ ActiveProfileRow(profileList, activeProfileId) = 0

\* the active id names a profile of the list
ActivePresent == \E i \in 1..Len(profileList) : profileList[i].Id = activeProfileId

\* C18 (as claimed): the table starts with the cursor on the active
\* profile's row, on row 0 when no profile is the active one; a confirm as
\* first event returns the active id when it is in the list.
C18_Original ==
    [][/\ (render /\ callerPc' = "recv" /\ Len(profileList) > 0) =>
             /\ \A i \in 1..Len(profileList) :
                   profileList[i].Id = activeProfileId => m'.table.cursor = i - 1
             /\ ~ActivePresent => m'.table.cursor = 0
       /\ (selectable /\ ActivePresent /\ lastMsg = "none" /\ KeyMsg("enter")) =>
             /\ failure' = "none"
             /\ m'.selectedProfileId = activeProfileId]_vars

\* C19 (as claimed): in non-selectable mode, with fair scheduling, no key
\* pressed and the program attached to the terminal, render eventually
\* returns.
C19_Original ==
    <>(selectable \/ lastMsg = "KeyMsg" \/ failure = "Error running program" \/ callerPc = "return")

\* C20: the local SSH entries are removed only after client.Remove returned
\* without error, once, for the active profile and the workspace name sent
\* in the Remove request; when List or Remove fails the command ends with no
\* SSH entry removed.
C20_SshAfterRemove ==
    /\ Len(del.sshRemoved) <= 1
    /\ del.sshRemoved # <<>> =>
          /\ del.request # <<>> /\ ~del.removeErr /\ ~del.listErr
          /\ del.sshRemoved[1] = <<del.activeProfile, del.request[1].Name>>
    /\ (del.listErr \/ del.removeErr) => (del.pc = "fatal" /\ del.sshRemoved = <<>>)
    /\ del.pc = "fatal" => del.sshRemoved = <<>>

\* the command finished: the name came from DAYTONA_WS_NAME, not from the
\* argument, and the entries of that workspace were removed
C20_Witness ==
    /\ del.pc = "done"
    /\ del.args = <<"w1">> /\ del.env = Ptr("w2")
    /\ del.request = <<[Name |-> "w2", Force |-> TRUE]>>
    /\ del.sshRemoved = << <<"b", "w2">> >>

====
